---- MODULE Spec2Model ----
(***************************************************************************)
(* Model of the ghostwriter article pipeline (pkg/article): the           *)
(* convenience WriteArticle function (start roles, run, teardown), the    *)
(* Orchestrator's Plan -> concurrent Write -> Edit run, and the role      *)
(* runtime (agent.Agent) seen as its input, output and error streams.     *)
(***************************************************************************)
EXTENDS Integers, Sequences, FiniteSets, TLC

(***************************************************************************)
(* Bounds of the model.                                                    *)
(***************************************************************************)
\* most sections of a plan (PoolSize + 1 makes two sections share a writer)
MaxSections == 4
\* largest MaxConcurrentWriters
MaxWriters == 2
\* most role faults in one run
MaxFaults == 1
\* runs whose limit exceeds the pool: most sections of a plan, and by how much
\* MaxConcurrentWriters may exceed the pool size
MaxPoolSections == 2
MaxOverPool == 1
\* meta search: most engines of a client, most results of one engine
MaxEngines == 2
MaxEngineResults == 2
\* goroutines calling into one KnowledgeBase at a time
MaxCallers == 2
\* writeSections statement by statement: most sections, largest
\* MaxConcurrentWriters
MaxLockSections == 2
MaxLockWriters == 2
\* runs checked for termination: most sections, largest MaxConcurrentWriters
MaxLiveSections == 3
MaxLiveWriters == 2

(***************************************************************************)
(* Program constants.                                                      *)
(***************************************************************************)
\* NewOrchestrator: writerAgents := make([]*agent.Agent, 3)
PoolSize == 3

VARIABLES
    nSections,          \* len(plan.Sections) of the plan the planner hands on
    maxConcurrentWriters, \* opts.MaxConcurrentWriters
    pc,                 \* position of the goroutine running WriteArticle
    cancelledAt,        \* where the run was when its scope (ctx) was cancelled or
                        \* timed out; "none" while ctx.Done() is not ready
    started,            \* roles whose Start succeeded
    stopped,            \* roles whose Stop was called
    stopResult,         \* roles whose Stop returned an error (value of Stop())
    outcome,            \* what Orchestrator.WriteArticle returned
    ret,                \* what the WriteArticle function returns to its caller
    planRequested,      \* the plan request was accepted by plannerAgent.In
    planHandled,        \* the planner handler finished the plan request
    planEvt,            \* the event generatePlan took from the planner's output
    plannerOut,         \* plannerAgent.Output()
    plannerErr,         \* errors pending on plannerAgent.Err()
    assigned,           \* sections whose assignment was accepted by a writer's In
    inbox,              \* per pool writer, the assignments its In accepted
    handled,            \* sections whose assignment the writer handler finished
    writerOut,          \* writerAgents[w].Output(), one stream per pool writer
    writerErr,          \* errors pending on writerAgents[w].Err()
    written,            \* the section list writeSections returned (nil: <<>>)
    editRequested,      \* the edit request was accepted by editorAgent.In
    editHandled,        \* the editor handler finished the edit request
    editorOut,          \* editorAgent.Output()
    editorErr,          \* errors pending on editorAgent.Err()
    editEvt,            \* the event editArticle took from the editor's output
    tpc,                \* position of each section goroutine of writeSections
    semaphore,          \* number of tokens in the semaphore channel
    holds,              \* tasks that sent their token and have not taken it back
    sections,           \* the pre-sized result slice of writeSections
    taken,              \* origin of the event each task took from a writer's output
    writeErr,           \* first error recorded under mu
    completedSections,  \* counter guarded by mu
    faults,             \* role faults so far: a refused In, a handler error, an
                        \* event that does not answer the request
    response,           \* PlannerHandler: the model's answer as llm.ParseJSON
                        \* reads it (as DocumentPlan and as LLMPlanResponse)
    parsed,             \* PlannerHandler: what parsePlanResponse returned
    documents,          \* KnowledgeBase.documents: the ID-keyed map
    kbIndex,            \* KnowledgeBase.index: the IDs the text index holds
    history,            \* the AddDocument calls so far, with their results
    kbReturn,           \* what the last KnowledgeBase call returned
    elapsed,            \* ProgressTracker: time.Since(pt.startTime), in ticks
    hasCallback,        \* ProgressTracker: pt.callback != nil
    lastEvent,          \* the last ProgressEvent handed to the callback
    ch,                 \* ProgressEventChannel: the events buffered in ch
    emitted,            \* ProgressEventChannel: calls of the callback so far
    lastReceived,       \* ProgressEventChannel: the last event a reader took
    lastCallback,       \* ProgressEventChannel: how the last callback call ended
    mu,                 \* writeSections: the task holding mu, 0 when it is free
    local,              \* writeSections: each task's err, content and
                        \* currentProgress
    access,             \* writeSections: the accesses to writeErr and
                        \* completedSections made by the last step
    kbMutex,            \* KnowledgeBase.mutex: its writer and its readers
    callers,            \* the goroutines calling into the KnowledgeBase
    engines,            \* meta.Client.Search: the goroutine of each engine
    collector,          \* meta.Client.Search: the goroutine ranging over results
    mergedResults,      \* meta.Client.Search: the slice mergedResults
    resultSet,          \* meta.Client.Search: the collector's set of seen URLs
    aggregatedErr,      \* meta.Client.Search: engines whose error was appended
    metaReturn          \* what meta.Client.Search returned

vars == <<nSections, maxConcurrentWriters, pc, cancelledAt, started, stopped,
          stopResult, outcome, ret, planRequested, planHandled, planEvt,
          plannerOut, plannerErr, assigned, inbox, handled, writerOut, writerErr,
          written, editRequested, editHandled, editorOut, editorErr, editEvt,
          tpc, semaphore, holds, sections, taken, writeErr, completedSections,
          faults, response, parsed, documents, kbIndex, history, kbReturn,
          elapsed, hasCallback, lastEvent, ch, emitted, lastReceived,
          lastCallback, mu, local, access, kbMutex, callers, engines,
          collector, mergedResults, resultSet, aggregatedErr, metaReturn>>

(***************************************************************************)
(* Roles, in the order Start and Stop walk them: planner, the pool        *)
(* writers, editor.                                                        *)
(***************************************************************************)
Writers == 0 .. (PoolSize - 1)
RoleOrder == <<"planner">> \o [w \in 1 .. PoolSize |-> "writer"] \o <<"editor">>
Roles == 1 .. Len(RoleOrder)

Tasks == 1 .. nSections

(***************************************************************************)
(* Event identities (agent.NewEventID) and events.                        *)
(***************************************************************************)
NoID == <<"none", 0>>
StaleID == <<"stale", 0>>
PlanRequestID == <<"message", 0>>
EditRequestID == <<"edit", 0>>
AssignmentID(i) == <<"assignment", i>>

\* error values, by what produced them
NoErr == "nil"
Err(kind) == kind

\* errors.WithStack(ctx.Err()) of a scope that is done (ScopeErrNil: the Err()
\* of a scope that is not done, such as the parent scope when only the run's
\* timeout fired)
ScopeErrNil == NoErr
ScopeErr == Err("ctx")

NoContent == [SectionID |-> 0]
ZeroDocument == [Title |-> "", Sections |-> <<>>]

\* (ArticleDocument, error) as returned; teardown: the stop-time errors the
\* caller is given with it
Return(doc, err) == [doc |-> doc, err |-> err, teardown |-> {}]
NoReturn == Return(ZeroDocument, NoErr)

Event(type, origin, content) == [type |-> type, origin |-> origin, content |-> content]

\* writeSection: o.writerAgents[writerIndex % len(o.writerAgents)], writerIndex
\* being the 0-based plan index of the section (WriterOfByLimit: the index
\* taken modulo the concurrency limit)
WriterOfByLimit(i) == (i - 1) % maxConcurrentWriters
WriterOf(i) == (i - 1) % PoolSize

\* PlannerHandler.Handle: NewDocumentPlanEvent(ctx, plan, subject, messageEvent)
PlannerHandle == Event("plan", PlanRequestID, NoContent)

\* WriterHandler.Handle: the content written for the assigned section, sent as
\* NewSectionContentEvent(ctx, content, assignmentEvent)
WriterHandle(i) == Event("content", AssignmentID(i), [SectionID |-> i])

\* EditorHandler.Handle: NewFinalArticleEvent(ctx, article, editRequest), the
\* article built from the request's sections
EditorHandle(secs) == Event("article", EditRequestID, [Title |-> "article", Sections |-> secs])

\* An event on a role's output stream that is not the answer to the pending
\* request: the response to a request of an earlier Orchestrator.WriteArticle
\* run on the same started roles, which that run stopped waiting for (its
\* Origin differs), or an event of another type.
StaleEvents(type) == {Event(type, StaleID, [Title |-> "stale", Sections |-> <<>>]),
                      Event("other", StaleID, NoContent)}

\* position of the roles in RoleOrder
PlannerRole == 1
WriterRole(w) == w + 2
EditorRole == Len(RoleOrder)
NoEvent == Event("none", NoID, NoContent)

ctxDone == cancelledAt # "none"

(***************************************************************************)
(* State after construction: NewOrchestrator has built the roles, nothing *)
(* is started.                                                             *)
(***************************************************************************)
OrchStart ==
    /\ pc = "start"
    /\ cancelledAt = "none"
    /\ started = {}
    /\ stopped = {}
    /\ stopResult = {}
    /\ outcome = NoReturn
    /\ ret = NoReturn
    /\ planRequested = FALSE
    /\ planHandled = FALSE
    /\ planEvt = NoEvent
    /\ plannerOut = <<>>
    /\ plannerErr = 0
    /\ assigned = {}
    /\ inbox = [w \in Writers |-> {}]
    /\ handled = {}
    /\ writerOut = [w \in Writers |-> <<>>]
    /\ writerErr = [w \in Writers |-> 0]
    /\ written = <<>>
    /\ editRequested = FALSE
    /\ editHandled = FALSE
    /\ editorOut = <<>>
    /\ editorErr = 0
    /\ editEvt = NoEvent
    /\ tpc = [i \in 1 .. nSections |-> "idle"]
    /\ semaphore = 0
    /\ holds = {}
    /\ sections = [i \in 1 .. nSections |-> NoContent]
    /\ taken = [i \in 1 .. nSections |-> NoID]
    /\ writeErr = NoErr
    /\ completedSections = 0
    /\ faults = 0

\* the plan's length and opts.MaxConcurrentWriters of the run (the planner
\* hands out no plan without sections: validatePlan)
OrchInit ==
    /\ nSections \in 1 .. MaxSections
    /\ maxConcurrentWriters \in 1 .. MaxWriters
    /\ OrchStart

\* the variables of writeSections seen statement by statement
lockVars == <<mu, local, access>>
\* the variables of the callers of a KnowledgeBase and of its mutex
kbLockVars == <<kbMutex, callers>>
\* the variables of meta.Client.Search
metaVars == <<engines, collector, mergedResults, resultSet, aggregatedErr,
              metaReturn>>

\* the variables of Orchestrator and of the roles it drives
runVarsAll == <<nSections, maxConcurrentWriters, pc, cancelledAt, started, stopped,
              stopResult, outcome, ret, planRequested, planHandled, planEvt,
              plannerOut, plannerErr, assigned, inbox, handled, writerOut,
              writerErr, written, editRequested, editHandled, editorOut, editorErr, editEvt,
              tpc, semaphore, holds, sections, taken, writeErr,
              completedSections, faults>>
\* the same with the variables of the components no run touches
orchVars == <<runVarsAll, lockVars, kbLockVars, metaVars>>
\* the variables of plan parsing (PlannerHandler.parsePlanResponse)
planVars == <<response, parsed>>

\* the variables of the KnowledgeBase
kbVars == <<documents, kbIndex, history, kbReturn>>
\* the variables of a ProgressTracker
trackerVars == <<elapsed, hasCallback>>
\* the variables of a ProgressEventChannel
chanVars == <<ch, emitted, lastReceived, lastCallback>>

\* the components a specification does not exercise stay as constructed
NoResponse == [format |-> "none"]
NotParsed == [by |-> "none"]
PlanIdle == response = NoResponse /\ parsed = NotParsed
OrchIdle == OrchInit /\ nSections = 1 /\ maxConcurrentWriters = 1
NoCall == [op |-> "none"]
KBInit ==
    /\ documents = <<>>
    /\ kbIndex = {}
    /\ history = <<>>
    /\ kbReturn = NoCall
NoProgressEvent == [phase |-> "none"]
TrackerIdle == elapsed = 0 /\ hasCallback = TRUE /\ lastEvent = NoProgressEvent
ChanInit ==
    /\ ch = <<>>
    /\ emitted = 0
    /\ lastReceived = 0
    /\ lastCallback = NoCall

\* no task of writeSections holds mu
LockIdle ==
    /\ mu = 0
    /\ local = <<>>
    /\ access = {}
\* no goroutine is calling into the KnowledgeBase
KBLockIdle ==
    /\ kbMutex = [writer |-> 0, readers |-> {}]
    /\ callers = <<>>
\* no meta search is running
MetaIdle ==
    /\ engines = <<>>
    /\ collector = [at |-> "none"]
    /\ mergedResults = <<>>
    /\ resultSet = {}
    /\ aggregatedErr = {}
    /\ metaReturn = NoCall
RestIdle == LockIdle /\ KBLockIdle /\ MetaIdle

Init == OrchInit /\ PlanIdle /\ KBInit /\ TrackerIdle /\ ChanInit /\ RestIdle

plannerVars == <<planRequested, planHandled, planEvt, plannerOut, plannerErr>>
writerVars == <<assigned, inbox, handled, writerOut, writerErr>>
editorVars == <<editRequested, editHandled, editorOut, editorErr, editEvt>>
taskVars == <<tpc, semaphore, holds, sections, taken, writeErr, completedSections>>
lifeVars == <<started, stopped, stopResult, ret>>
runVars == <<stopped, stopResult, ret, outcome>>
\* the configuration of a run, and the components a run leaves alone
confVars == <<nSections, maxConcurrentWriters, planVars, kbVars, trackerVars,
             chanVars, lockVars, kbLockVars, metaVars>>
envVars == <<confVars, faults>>

\* a role refuses a request, fails in its handler or Stop, or delivers an
\* event that does not answer the request at most MaxFaults times in a run
Fault == faults < MaxFaults /\ faults' = faults + 1
NoFault == faults' = faults


(***************************************************************************)
(* ProgressTracker.  Progress is counted in hundredths (1.0 is 100), time  *)
(* in ticks; a time.Duration is a signed integer of DurationBits bits.    *)
(***************************************************************************)
\* largest time.Since(pt.startTime), in ticks
MaxElapsed == 3
\* width of a time.Duration in the model
DurationBits == 8

\* progress 1.0
FullProgress == 100
PlanningWeight == 20
WritingWeight == 60
EditingWeight == 20

MaxDuration == 2 ^ (DurationBits - 1) - 1
MinDuration == -(2 ^ (DurationBits - 1))
\* arithmetic on time.Duration wraps around
WrapDuration(d) ==
    ((d - MinDuration) % (2 ^ DurationBits)) + MinDuration

ProgressPhases == {"initializing", "researching", "planning", "writing",
                   "editing", "attributing", "completed"}

\* GetPhaseBaseProgress
GetPhaseBaseProgressFlat(phase) ==
    CASE phase = "writing" -> PlanningWeight
      [] phase = "editing" -> PlanningWeight
      [] phase = "completed" -> FullProgress
      [] OTHER -> 0
GetPhaseBaseProgress(phase) ==
    CASE phase = "initializing" -> 0
      [] phase = "planning" -> 0
      [] phase = "writing" -> PlanningWeight
      [] phase = "editing" -> PlanningWeight + WritingWeight
      [] phase = "completed" -> FullProgress
      [] OTHER -> 0

\* time.Duration(float64(elapsed) / progress): the quotient is truncated; when
\* it does not fit a Duration the result of the conversion depends on the
\* implementation (the smallest Duration on amd64, the largest where the
\* conversion saturates)
TotalEstimated(el, progress) ==
    IF (el * FullProgress) \div progress <= MaxDuration
    THEN {(el * FullProgress) \div progress}
    ELSE {MinDuration, MaxDuration}

\* estimatedRemaining = totalEstimated - elapsed
RemainingIsTotal(totalEstimated, el) == totalEstimated
Remaining(totalEstimated, el) == WrapDuration(totalEstimated - el)

\* NewProgressEvent
ProgressEvent(phase, details, progress, el, estimatedRemaining) ==
    [phase |-> phase, details |-> details, progress |-> progress,
     elapsedTime |-> el, estimatedTimeRemaining |-> estimatedRemaining]

\* EmitProgress: nothing without a callback; else the event is built and
\* handed to the callback
EmitProgress(phase, details, progress) ==
    IF ~hasCallback
    THEN lastEvent' = lastEvent
    ELSE IF progress > 0 /\ progress < FullProgress
    THEN \E totalEstimated \in TotalEstimated(elapsed, progress) :
            lastEvent' = ProgressEvent(phase, details, progress, elapsed,
                                       Remaining(totalEstimated, elapsed))
    ELSE lastEvent' = ProgressEvent(phase, details, progress, elapsed, 0)

\* EmitPhaseStart, EmitPhaseComplete
EmitPhaseStart(phase, baseProgress) ==
    EmitProgress(phase, [kind |-> "phase_start"], baseProgress)
EmitPhaseComplete(phase, baseProgress) ==
    EmitProgress(phase, [kind |-> "phase_complete"], baseProgress)

\* EmitSubProgress: overallProgress := baseProgress + (subProgress * phaseWeight)
EmitSubProgress(phase, baseProgress, subProgress, phaseWeight) ==
    EmitProgress(phase,
                 [kind |-> "sub_progress", sub_progress |-> subProgress,
                  phase_weight |-> phaseWeight],
                 baseProgress + (subProgress * phaseWeight) \div FullProgress)


(***************************************************************************)
(* The WriteArticle function: Start, then Orchestrator.WriteArticle with  *)
(* Stop deferred.                                                          *)
(***************************************************************************)

\* Orchestrator.Start walks planner, writers, editor and returns at the first
\* Start that fails; failAt = Len(RoleOrder) + 1: none fails.  WriteArticle
\* returns on that error before `defer orchestrator.Stop()` is reached.
Start ==
    /\ pc = "start"
    /\ \E failAt \in 1 .. (Len(RoleOrder) + 1) :
        /\ started' = {r \in Roles : r < failAt}
        /\ IF failAt <= Len(RoleOrder)
              THEN /\ ret' = Return(ZeroDocument, Err("start"))
                   /\ pc' = "returned"
              ELSE /\ ret' = ret
                   /\ pc' = "plan_submit"
    /\ UNCHANGED <<envVars, lastEvent, cancelledAt, stopped, stopResult, outcome,
                   plannerVars, writerVars, written, editorVars, taskVars>>

\* ctx, cancel := context.WithTimeout(ctx, opts.Timeout): the timeout fires or
\* the parent scope is cancelled, at any point of the run
RunningAt == {"plan_submit", "plan_wait", "write_spawn", "write_join",
              "edit_submit", "edit_wait"}

Cancel ==
    /\ pc \in RunningAt
    /\ cancelledAt = "none"
    /\ cancelledAt' = pc
    /\ UNCHANGED <<envVars, lastEvent, pc, lifeVars, outcome, plannerVars, writerVars,
                   written, editorVars, taskVars>>

\* Orchestrator.Stop calls Stop on every role, whatever the earlier ones
\* returned, and returns the collected errors joined (failing: the roles
\* whose Stop returns an error)
Stop(failing) ==
    /\ stopped' = Roles
    /\ stopResult' = failing

\* what the WriteArticle function hands its caller: the value of
\* `return orchestrator.WriteArticle(...)`; the value of the deferred
\* orchestrator.Stop() is dropped
Handed(run, stopErrs) == Return(run.doc, run.err)

\* Orchestrator.WriteArticle returns (doc, err) and, on the way out of the
\* WriteArticle function, `defer orchestrator.Stop()` runs
Returns(doc, err) ==
    /\ outcome' = Return(doc, err)
    /\ \E failing \in {S \in SUBSET Roles : Cardinality(S) <= MaxFaults - faults'} :
        /\ Stop(failing)
        /\ ret' = Handed(Return(doc, err), failing)
    /\ pc' = "returned"

\* generatePlan: the response is the plan only if it is a DocumentPlanEvent
\* whose Origin is the request (PlanAcceptedAnyOrigin: the type assertion
\* alone)
PlanAcceptedAnyOrigin(evt, request) == evt.type = "plan"
PlanAccepted(evt, request) ==
    /\ evt.type = "plan"
    /\ evt.origin = request

\* generatePlan: o.plannerAgent.In(planRequest)
PlanSubmit ==
    /\ pc = "plan_submit"
    /\ \E ok \in BOOLEAN :
        IF ok
           THEN /\ planRequested' = TRUE
                /\ NoFault
                /\ pc' = "plan_wait"
                /\ UNCHANGED runVars
           ELSE /\ planRequested' = planRequested
                /\ Fault
                /\ Returns(ZeroDocument, Err("submit"))
    /\ EmitPhaseStart("planning", GetPhaseBaseProgress("planning"))
    /\ UNCHANGED <<confVars, cancelledAt, started, planHandled, planEvt,
                   plannerOut, plannerErr, writerVars, written, editorVars,
                   taskVars>>

\* generatePlan's select, case evt := <-o.plannerAgent.Output()
PlanRecvOutput ==
    /\ NoFault
    /\ pc = "plan_wait"
    /\ plannerOut # <<>>
    /\ planEvt' = Head(plannerOut)
    /\ plannerOut' = Tail(plannerOut)
    /\ IF PlanAccepted(Head(plannerOut), PlanRequestID)
          THEN /\ pc' = "write_spawn"
               /\ EmitPhaseStart("writing", GetPhaseBaseProgress("writing"))
               /\ UNCHANGED runVars
          ELSE /\ Returns(ZeroDocument, Err("protocol"))
               /\ lastEvent' = lastEvent
    /\ UNCHANGED <<confVars, cancelledAt, started, planRequested, planHandled,
                   plannerErr, writerVars, written, editorVars, taskVars>>

\* generatePlan's select, case err := <-o.plannerAgent.Err()
PlanRecvErr ==
    /\ NoFault
    /\ pc = "plan_wait"
    /\ plannerErr > 0
    /\ plannerErr' = plannerErr - 1
    /\ Returns(ZeroDocument, Err("role"))
    /\ UNCHANGED <<confVars, lastEvent, cancelledAt, started, planRequested, planHandled,
                   planEvt, plannerOut, writerVars, written, editorVars, taskVars>>

\* generatePlan's select, case <-ctx.Done()
PlanCtxDone ==
    /\ NoFault
    /\ pc = "plan_wait"
    /\ ctxDone
    /\ Returns(ZeroDocument, ScopeErr)
    /\ UNCHANGED <<confVars, lastEvent, cancelledAt, started, plannerVars, writerVars,
                   written, editorVars, taskVars>>


(***************************************************************************)
(* writeSections: one goroutine per section, a semaphore channel of       *)
(* capacity MaxConcurrentWriters, results stored by plan index.           *)
(***************************************************************************)

\* the loop `for i, section := range plan.Sections { wg.Add(1); go func... }`
SpawnTasks ==
    /\ pc = "write_spawn"
    /\ tpc' = [i \in Tasks |-> "spawned"]
    /\ pc' = "write_join"
    /\ UNCHANGED <<envVars, lastEvent, cancelledAt, lifeVars, outcome, plannerVars,
                   writerVars, written, editorVars, semaphore, holds, sections,
                   taken, writeErr, completedSections>>

\* `semaphore <- struct{}{}` on a channel of capacity MaxConcurrentWriters
\* goes through only while the channel is not full (CanAcquireAlways: a send
\* that never blocks)
CanAcquireAlways(tokens, capacity) == TRUE
CanAcquire(tokens, capacity) == tokens < capacity

\* `if writeErr == nil { writeErr = err }` under mu (FirstErrorDropped: the
\* error is not recorded; FirstErrorOverwrites: the assignment without the
\* test)
FirstErrorDropped(recorded, err) == recorded
FirstErrorOverwrites(recorded, err) == err
FirstError(recorded, err) == IF recorded = NoErr THEN err ELSE recorded

\* a task's error return: record under mu, then the deferred
\* `<-semaphore` and wg.Done() (FailsRetry: the task starts over instead of
\* ending)
FailsRetry(i, err) ==
    /\ writeErr' = FirstError(writeErr, err)
    /\ semaphore' = semaphore - 1
    /\ holds' = holds \ {i}
    /\ tpc' = [tpc EXCEPT ![i] = "spawned"]
Fails(i, err) ==
    /\ writeErr' = FirstError(writeErr, err)
    /\ semaphore' = semaphore - 1
    /\ holds' = holds \ {i}
    /\ tpc' = [tpc EXCEPT ![i] = "failed"]

\* a task's error return before it waits on its writer: the token it sent is
\* taken back by the deferred `<-semaphore` in the same step
Refused(i, err) ==
    /\ writeErr' = FirstError(writeErr, err)
    /\ UNCHANGED <<semaphore, holds>>
    /\ tpc' = [tpc EXCEPT ![i] = "failed"]

\* `select { case <-ctx.Done(): ... return; default: }` after the acquire
\* (CancelledNever: the task goes on without the check)
CancelledNever(done) == FALSE
Cancelled(done) == done

\* a section goroutine from its start to the select of writeSection: the
\* acquire `semaphore <- struct{}{}`, the cancellation check
\* `select { case <-ctx.Done(): ... return; default: }`, the section-start
\* progress event, and writerAgent.In(assignment), which may return an error
BeginWrite(i) ==
    /\ tpc[i] = "spawned"
    /\ CanAcquire(semaphore, maxConcurrentWriters)
    /\ IF Cancelled(ctxDone)
          THEN /\ Refused(i, ScopeErr)
               /\ UNCHANGED <<assigned, inbox>>
               /\ NoFault
               /\ lastEvent' = lastEvent
          ELSE \E ok \in BOOLEAN :
                /\ EmitSubProgress("writing", GetPhaseBaseProgress("writing"),
                                   0, WritingWeight)
                /\ IF ok
                      THEN /\ assigned' = assigned \cup {i}
                           /\ inbox' = [inbox EXCEPT ![WriterOf(i)] = @ \cup {i}]
                           /\ NoFault
                           /\ semaphore' = semaphore + 1
                           /\ holds' = holds \cup {i}
                           /\ tpc' = [tpc EXCEPT ![i] = "waiting"]
                           /\ writeErr' = writeErr
                      ELSE /\ UNCHANGED <<assigned, inbox>>
                           /\ Fault
                           /\ Refused(i, Err("submit"))
    /\ UNCHANGED <<confVars, pc, cancelledAt, lifeVars, outcome, plannerVars,
                   handled, writerOut, writerErr, written, editorVars, sections,
                   taken, completedSections>>

\* writeSection: the event taken from the writer's output is the content if
\* it is a SectionContentEvent
ContentAccepted(evt, assignment) == evt.type = "content"

\* currentProgress := float64(completedSections) / float64(totalSections),
\* in hundredths
CurrentProgress(completed, total) == (completed * FullProgress) \div total

\* writeSection's select, case evt := <-writerAgent.Output(); on success
\* `sections[index] = content; completedSections++` under mu, then the
\* section's completion is emitted
TaskRecvOutput(i) ==
    /\ tpc[i] = "waiting"
    /\ writerOut[WriterOf(i)] # <<>>
    /\ LET evt == Head(writerOut[WriterOf(i)]) IN
        /\ writerOut' = [writerOut EXCEPT ![WriterOf(i)] = Tail(@)]
        /\ taken' = [taken EXCEPT ![i] = evt.origin]
        /\ IF ContentAccepted(evt, AssignmentID(i))
              THEN /\ sections' = [sections EXCEPT ![i] = evt.content]
                   /\ completedSections' = completedSections + 1
                   /\ semaphore' = semaphore - 1
                   /\ holds' = holds \ {i}
                   /\ tpc' = [tpc EXCEPT ![i] = "completed"]
                   /\ writeErr' = writeErr
                   /\ EmitSubProgress("writing", GetPhaseBaseProgress("writing"),
                                      CurrentProgress(completedSections + 1,
                                                      nSections),
                                      WritingWeight)
              ELSE /\ Fails(i, Err("protocol"))
                   /\ UNCHANGED <<sections, completedSections, lastEvent>>
    /\ UNCHANGED <<envVars, pc, cancelledAt, lifeVars, outcome, plannerVars,
                   assigned, inbox, handled, writerErr, written, editorVars>>

\* writeSection's select, case err := <-writerAgent.Err()
TaskRecvErr(i) ==
    /\ tpc[i] = "waiting"
    /\ writerErr[WriterOf(i)] > 0
    /\ writerErr' = [writerErr EXCEPT ![WriterOf(i)] = @ - 1]
    /\ Fails(i, Err("role"))
    /\ UNCHANGED <<envVars, lastEvent, pc, cancelledAt, lifeVars, outcome, plannerVars,
                   assigned, inbox, handled, writerOut, written, editorVars,
                   sections, taken, completedSections>>

\* writeSection's select has the case <-ctx.Done(), ready once the scope is
\* done (ScopeNotWatched: a select without that case)
ScopeNotWatched(done) == FALSE
ScopeWatched(done) == done

\* writeSection's select, case <-ctx.Done()
TaskCtxDone(i) ==
    /\ tpc[i] = "waiting"
    /\ ScopeWatched(ctxDone)
    /\ Fails(i, ScopeErr)
    /\ UNCHANGED <<envVars, lastEvent, pc, cancelledAt, lifeVars, outcome, plannerVars,
                   writerVars, written, editorVars, sections, taken,
                   completedSections>>

\* after wg.Wait(): `if writeErr != nil { return nil, ... }` (JoinFailedNever:
\* the recorded error is not looked at)
JoinFailedNever(err) == FALSE
JoinFailed(err) == err # NoErr

\* wg.Wait() and the return of writeSections; WriteArticle returns the zero
\* ArticleDocument with the error, or goes on to editing
Join ==
    /\ NoFault
    /\ pc = "write_join"
    /\ \A i \in Tasks : tpc[i] \in {"failed", "completed"}
    /\ IF JoinFailed(writeErr)
          THEN /\ written' = <<>>
               /\ Returns(ZeroDocument, writeErr)
               /\ lastEvent' = lastEvent
          ELSE /\ written' = sections
               /\ pc' = "edit_submit"
               /\ EmitPhaseStart("editing", GetPhaseBaseProgress("editing"))
               /\ UNCHANGED runVars
    /\ UNCHANGED <<confVars, cancelledAt, started, plannerVars, writerVars,
                   editorVars, taskVars>>


(***************************************************************************)
(* editArticle and the return of Orchestrator.WriteArticle.                *)
(***************************************************************************)

\* editArticle: the response is the article if it is a FinalArticleEvent
EditAccepted(evt, request) == evt.type = "article"

\* WriteArticle after editArticle returned: on an error it returns the
\* error; else it emits the Completed event at progress 1.0 and returns the
\* article
EditFailedNever(err) == FALSE
EditFailed(err) == err # NoErr
AfterEdit(article, err) ==
    IF EditFailed(err)
    THEN /\ lastEvent' = lastEvent
         /\ Returns(ZeroDocument, err)
    ELSE /\ EmitProgress("completed", [kind |-> "progress"], FullProgress)
         /\ Returns(article, err)

\* editArticle: o.editorAgent.In(editRequest)
EditSubmit ==
    /\ pc = "edit_submit"
    /\ \E ok \in BOOLEAN :
        IF ok
           THEN /\ editRequested' = TRUE
                /\ NoFault
                /\ pc' = "edit_wait"
                /\ UNCHANGED runVars
           ELSE /\ editRequested' = editRequested
                /\ Fault
                /\ Returns(ZeroDocument, Err("submit"))
    /\ UNCHANGED <<confVars, lastEvent, cancelledAt, started, plannerVars, writerVars,
                   written, editHandled, editorOut, editorErr, editEvt, taskVars>>

\* editArticle's select, case evt := <-o.editorAgent.Output()
EditRecvOutput ==
    /\ NoFault
    /\ pc = "edit_wait"
    /\ editorOut # <<>>
    /\ editEvt' = Head(editorOut)
    /\ editorOut' = Tail(editorOut)
    /\ IF EditAccepted(Head(editorOut), EditRequestID)
          THEN AfterEdit(Head(editorOut).content, NoErr)
          ELSE AfterEdit(ZeroDocument, Err("protocol"))
    /\ UNCHANGED <<confVars, cancelledAt, started, plannerVars, writerVars,
                   written, editRequested, editHandled, editorErr, taskVars>>

\* editArticle's select, case err := <-o.editorAgent.Err()
EditRecvErr ==
    /\ NoFault
    /\ pc = "edit_wait"
    /\ editorErr > 0
    /\ editorErr' = editorErr - 1
    /\ AfterEdit(ZeroDocument, Err("role"))
    /\ UNCHANGED <<confVars, cancelledAt, started, plannerVars, writerVars,
                   written, editRequested, editHandled, editorOut, editEvt,
                   taskVars>>

\* editArticle's select, case <-ctx.Done()
EditCtxDone ==
    /\ NoFault
    /\ pc = "edit_wait"
    /\ ctxDone
    /\ AfterEdit(ZeroDocument, ScopeErr)
    /\ UNCHANGED <<confVars, cancelledAt, started, plannerVars, writerVars,
                   written, editorVars, taskVars>>

(***************************************************************************)
(* The role runtime (agent.Agent) running the handlers: a started role    *)
(* that is not stopped takes a submitted request and puts its answer on   *)
(* its output stream, or the handler's error on its error stream.         *)
(***************************************************************************)
Running(r) == r \in started /\ r \notin stopped

PlannerResponds ==
    /\ Running(PlannerRole)
    /\ planRequested /\ ~planHandled
    /\ planHandled' = TRUE
    /\ \E evt \in {PlannerHandle} \cup StaleEvents("plan") :
        /\ plannerOut' = Append(plannerOut, evt)
        /\ IF evt = PlannerHandle THEN NoFault ELSE Fault
    /\ UNCHANGED <<confVars, lastEvent, pc, cancelledAt, lifeVars, outcome, planRequested,
                   planEvt, plannerErr, writerVars, written, editorVars, taskVars>>

PlannerFails ==
    /\ Running(PlannerRole)
    /\ planRequested /\ ~planHandled
    /\ planHandled' = TRUE
    /\ plannerErr' = plannerErr + 1
    /\ Fault
    /\ UNCHANGED <<confVars, lastEvent, pc, cancelledAt, lifeVars, outcome, planRequested,
                   planEvt, plannerOut, writerVars, written, editorVars, taskVars>>

\* the pool writer that was handed assignment i answers it on its own output
WriterResponds(i) ==
    /\ \E w \in Writers :
        /\ i \in inbox[w]
        /\ Running(WriterRole(w))
        /\ \E evt \in {WriterHandle(i), Event("other", AssignmentID(i), NoContent)} :
            /\ writerOut' = [writerOut EXCEPT ![w] = Append(@, evt)]
            /\ IF evt = WriterHandle(i) THEN NoFault ELSE Fault
    /\ i \notin handled
    /\ handled' = handled \cup {i}
    /\ UNCHANGED <<confVars, lastEvent, pc, cancelledAt, lifeVars, outcome, plannerVars,
                   assigned, inbox, writerErr, written, editorVars, taskVars>>

WriterFails(i) ==
    /\ \E w \in Writers :
        /\ i \in inbox[w]
        /\ Running(WriterRole(w))
        /\ writerErr' = [writerErr EXCEPT ![w] = @ + 1]
    /\ i \notin handled
    /\ handled' = handled \cup {i}
    /\ Fault
    /\ UNCHANGED <<confVars, lastEvent, pc, cancelledAt, lifeVars, outcome, plannerVars,
                   assigned, inbox, writerOut, written, editorVars, taskVars>>

EditorResponds ==
    /\ Running(EditorRole)
    /\ editRequested /\ ~editHandled
    /\ editHandled' = TRUE
    /\ \E evt \in {EditorHandle(written)} \cup StaleEvents("article") :
        /\ editorOut' = Append(editorOut, evt)
        /\ IF evt = EditorHandle(written) THEN NoFault ELSE Fault
    /\ UNCHANGED <<confVars, lastEvent, pc, cancelledAt, lifeVars, outcome, plannerVars,
                   writerVars, written, editRequested, editorErr, editEvt,
                   taskVars>>

EditorFails ==
    /\ Running(EditorRole)
    /\ editRequested /\ ~editHandled
    /\ editHandled' = TRUE
    /\ editorErr' = editorErr + 1
    /\ Fault
    /\ UNCHANGED <<confVars, lastEvent, pc, cancelledAt, lifeVars, outcome, plannerVars,
                   writerVars, written, editRequested, editorOut, editEvt,
                   taskVars>>

Next ==
    \/ Start
    \/ Cancel
    \/ PlanSubmit
    \/ PlanRecvOutput
    \/ PlanRecvErr
    \/ PlanCtxDone
    \/ SpawnTasks
    \/ \E i \in Tasks : BeginWrite(i)
    \/ \E i \in Tasks : TaskRecvOutput(i)
    \/ \E i \in Tasks : TaskRecvErr(i)
    \/ \E i \in Tasks : TaskCtxDone(i)
    \/ Join
    \/ EditSubmit
    \/ EditRecvOutput
    \/ EditRecvErr
    \/ EditCtxDone
    \/ PlannerResponds
    \/ PlannerFails
    \/ \E i \in Tasks : WriterResponds(i)
    \/ \E i \in Tasks : WriterFails(i)
    \/ EditorResponds
    \/ EditorFails

Spec == Init /\ [][Next]_vars

\* The goroutine running WriteArticle and every section goroutine keep being
\* scheduled: a step of theirs that stays possible is taken.  Nothing is
\* assumed of the roles, which may never answer, nor of the cancellation.
MainStep ==
    \/ PlanSubmit
    \/ PlanRecvOutput
    \/ PlanRecvErr
    \/ PlanCtxDone
    \/ SpawnTasks
    \/ Join
    \/ EditSubmit
    \/ EditRecvOutput
    \/ EditRecvErr
    \/ EditCtxDone

TaskStep(i) ==
    /\ i \in Tasks
    /\ \/ BeginWrite(i)
       \/ TaskRecvOutput(i)
       \/ TaskRecvErr(i)
       \/ TaskCtxDone(i)

\* (a plan without sections included: writeSections then has no goroutine
\* to wait for)
LiveInit ==
    /\ nSections \in 0 .. MaxLiveSections
    /\ maxConcurrentWriters \in 1 .. MaxLiveWriters
    /\ OrchStart /\ PlanIdle /\ KBInit /\ TrackerIdle /\ ChanInit /\ RestIdle

SpecLive ==
    /\ LiveInit
    /\ [][Next]_vars
    /\ WF_vars(MainStep)
    /\ \A i \in 1 .. MaxLiveSections : WF_vars(TaskStep(i))

\* runs with MaxConcurrentWriters up to beyond the pool size on short plans,
\* and the run of a plan one section longer than the pool
PoolInit ==
    /\ \/ /\ nSections \in 1 .. MaxPoolSections
          /\ maxConcurrentWriters \in 1 .. (PoolSize + MaxOverPool)
       \/ /\ nSections = PoolSize + 1
          /\ maxConcurrentWriters = 1
    /\ OrchStart /\ PlanIdle /\ KBInit /\ TrackerIdle /\ ChanInit /\ RestIdle

SpecPool == PoolInit /\ [][Next]_vars


(***************************************************************************)
(* Properties.                                                             *)
(***************************************************************************)
Done == pc = "returned"

\* C1: the number of section tasks that have acquired the limiter and not
\* released it never exceeds MaxConcurrentWriters (it is the number of tokens
\* in the semaphore channel), and a task waits on its writer round trip only
\* while it holds a slot.
C1_LimiterBound ==
    /\ Cardinality(holds) <= maxConcurrentWriters
    /\ semaphore = Cardinality(holds)
    /\ \A i \in Tasks : tpc[i] = "waiting" => i \in holds

\* C1 witness: the limiter is full while another section task is still
\* waiting for a slot.
C1_Witness ==
    /\ Cardinality(holds) = maxConcurrentWriters
    /\ \E i \in Tasks : tpc[i] = "spawned"
    /\ \A i \in holds : tpc[i] = "waiting"

\* C2: when the writing phase succeeds the returned list has one entry per
\* plan section and entry i is the content written for plan section i.
C2_PlanOrder ==
    (pc \in {"edit_submit", "edit_wait"}) =>
        /\ Len(written) = nSections
        /\ \A i \in Tasks : written[i].SectionID = i

\* C3: a section task accepts a SectionContent response only if its Origin is
\* the assignment this task submitted.
C3_OriginCorrelation ==
    \A i \in Tasks : tpc[i] = "completed" => taken[i] = AssignmentID(i)

\* C4: once a section write has failed, no edit request is ever submitted and
\* no section list is returned; the run returns the recorded error with the
\* zero-value Document, whatever other sections completed.
C4_FailureDiscardsAll ==
    (\E i \in Tasks : tpc[i] = "failed") =>
        /\ ~editRequested
        /\ written = <<>>
        /\ pc \in {"write_join", "returned"}
        /\ Done => /\ outcome.err # NoErr
                   /\ outcome.err = writeErr
                   /\ outcome.doc = ZeroDocument
                   /\ ret.err = writeErr
                   /\ ret.doc = ZeroDocument

\* C4 witness: the run has returned after one section failed and another had
\* completed and stored its content.
C4_Witness ==
    /\ Done
    /\ \E i \in Tasks : tpc[i] = "failed"
    /\ \E j \in Tasks : tpc[j] = "completed" /\ sections[j] # NoContent

C6_CancellationWins ==
    [][/\ (ctxDone /\ pc = "plan_wait" /\ plannerErr = 0 /\ pc' # pc)
            => (pc' = "returned" /\ outcome'.err = Err("ctx"))
       /\ (ctxDone /\ pc = "edit_wait" /\ editorErr = 0 /\ pc' # pc)
            => (pc' = "returned" /\ outcome'.err = Err("ctx"))
       /\ \A i \in DOMAIN tpc :
            (ctxDone /\ tpc[i] = "waiting") => tpc'[i] # "completed"]_vars

\* C7: planning yields a plan only from a DocumentPlan response whose Origin
\* is the plan request; any other event taken from the planner's output ends
\* the run with a protocol error, no plan and no section task.
HasPlan ==
    \/ pc \in {"write_spawn", "write_join", "edit_submit", "edit_wait"}
    \/ \E i \in Tasks : tpc[i] # "idle"

C7_PlanCorrelation ==
    /\ HasPlan => (planEvt.type = "plan" /\ planEvt.origin = PlanRequestID)
    /\ (planEvt # NoEvent /\ ~(planEvt.type = "plan" /\ planEvt.origin = PlanRequestID))
        => /\ Done
           /\ outcome.err = Err("protocol")
           /\ outcome.doc = ZeroDocument
           /\ ~HasPlan

\* C7 witness: a DocumentPlan response with a foreign Origin was taken and
\* the run has ended.
C7_Witness ==
    /\ planEvt.type = "plan"
    /\ planEvt.origin = StaleID
    /\ Done

\* C8: editing returns the Document only from a FinalArticle whose Origin is
\* the edit request; a FinalArticle with another Origin is rejected with a
\* protocol error and yields no Document.
C8_EditCorrelation ==
    (Done /\ editEvt # NoEvent) =>
        /\ outcome.err = NoErr => editEvt.origin = EditRequestID
        /\ editEvt.origin # EditRequestID
            => (outcome.err = Err("protocol") /\ outcome.doc = ZeroDocument)

\* C9: when the WriteArticle function has returned, every role whose Start
\* succeeded has been sent a Stop request.
C9_StartedRolesStopped ==
    Done => started \subseteq stopped

\* C10: after teardown the function returns the run's own outcome unchanged
\* and the stop-time errors are handed to the caller with it.
C10_TeardownErrorsReported ==
    (Done /\ stopped # {}) =>
        /\ ret.doc = outcome.doc
        /\ ret.err = outcome.err
        /\ ret.teardown = stopResult

\* C19: the last progress event the orchestrator emitted is the Completed
\* event exactly when the WriteArticle function has returned without error;
\* that event carries progress 1.0 and follows the acceptance of the editor's
\* response.  (lastEvent is the most recent emission, so any emission after
\* the Completed event would break the equivalence.)
C19_CompletedIffSuccess ==
    /\ (lastEvent.phase = "completed") <=> (Done /\ ret.err = NoErr)
    /\ lastEvent.phase = "completed" =>
        /\ lastEvent.progress = FullProgress
        /\ editEvt # NoEvent
        /\ EditAccepted(editEvt, EditRequestID)
        /\ ret.doc = editEvt.content

C19_Witness ==
    /\ Done
    /\ nSections >= 2
    /\ lastEvent.phase = "completed"
    /\ ret.doc # ZeroDocument

WritingReturned ==
    /\ PlanAccepted(planEvt, PlanRequestID)
    /\ pc \in {"edit_submit", "edit_wait", "returned"}

\* C23: the completed-section counter counts the sections whose content is
\* stored in their slot (one increment with each store, none without), never
\* decreases, never exceeds the number of sections N, and when the writing
\* phase has returned it equals N exactly if the phase returned no error.
C23_CounterCountsStoredSections ==
    /\ [](/\ completedSections = Cardinality({i \in Tasks : tpc[i] = "completed"})
          /\ \A i \in Tasks : (tpc[i] = "completed") <=> (sections[i] # NoContent)
          /\ completedSections <= nSections
          /\ completedSections = nSections => writeErr = NoErr
          /\ WritingReturned
                => ((completedSections = nSections) <=> (writeErr = NoErr)))
    /\ [][/\ completedSections' >= completedSections
          /\ \A i \in Tasks :
                IF sections'[i] # sections[i]
                THEN /\ sections[i] = NoContent
                     /\ completedSections' = completedSections + 1
                     /\ \A j \in Tasks \ {i} : sections'[j] = sections[j]
                ELSE TRUE
          /\ completedSections' # completedSections
                => \E i \in Tasks : sections'[i] # sections[i]]_vars

\* C23 witness: the writing phase has returned with every one of several
\* slots filled.
C23_Witness ==
    /\ WritingReturned
    /\ nSections >= 3
    /\ completedSections = nSections
    /\ \A i \in Tasks : sections[i] # NoContent

\* C24: once an error is recorded in a writing phase it is never replaced,
\* whatever fails or is cancelled afterwards, and it is the error the phase
\* and the run return.
C24_FirstErrorKept ==
    /\ [](WritingReturned /\ writeErr # NoErr
            => (Done /\ outcome.err = writeErr /\ outcome.doc = ZeroDocument))
    /\ [][writeErr # NoErr => writeErr' = writeErr]_vars

\* C24 witness: two section tasks failed for different reasons, a role's
\* failure and the cancellation of the scope, and the phase has returned.
C24_Witness ==
    /\ WritingReturned
    /\ Cardinality({i \in Tasks : tpc[i] = "failed"}) >= 2
    /\ ctxDone
    /\ faults > 0
    /\ writeErr \notin {NoErr, ScopeErr}

\* C29: the overall progress values of the events of a run never decrease
\* from one emission to the next.
C29_ProgressNeverDecreases ==
    [][(lastEvent.phase # "none" /\ lastEvent'.phase # "none")
        => lastEvent'.progress >= lastEvent.progress]_vars

\* C30: a section task that finds the scope cancelled when it gets its
\* limiter slot ends there: no assignment is submitted, no writer stream is
\* touched, no slot is written, the counter is unchanged, the cancellation
\* is recorded only if no error was recorded, and the limiter holds what it
\* held before the task took its slot.
C30_CancelledAtSlot ==
    [][\A i \in DOMAIN tpc :
        (tpc[i] = "spawned" /\ ctxDone /\ tpc'[i] # "spawned") =>
            /\ tpc'[i] = "failed"
            /\ UNCHANGED <<assigned, inbox, writerOut, writerErr, handled>>
            /\ UNCHANGED <<sections, completedSections, lastEvent>>
            /\ writeErr' = (IF writeErr = NoErr THEN ScopeErr ELSE writeErr)
            /\ semaphore' = semaphore
            /\ holds' = holds
            /\ i \notin holds']_vars

\* C30 witness: with no role fault in the run, a task ended without having
\* submitted its assignment, after one section was completed and one task
\* was cancelled during its round trip.
C30_Witness ==
    /\ faults = 0
    /\ \E i \in Tasks : tpc[i] = "failed" /\ i \notin assigned
    /\ \E j \in Tasks : tpc[j] = "completed"
    /\ \E k \in Tasks : tpc[k] = "failed" /\ k \in assigned

\* some pool writer was handed the assignments of several sections
WriterShared == \E w \in DOMAIN inbox : Cardinality(inbox[w]) >= 2

\* C25 as stated: once every section of a plan of several sections is
\* assigned, several sections are with the same writer whenever
\* MaxConcurrentWriters or the number of sections exceeds the pool size.
C25_SharedAsStated ==
    (/\ nSections >= 2
     /\ assigned = Tasks
     /\ (maxConcurrentWriters > 3 \/ nSections > 3))
        => WriterShared

\* C25: the pool has 3 writers whatever MaxConcurrentWriters is, and the
\* section at (0-based) plan index i is submitted to pool writer i mod 3; so
\* once every section is assigned, several sections are with the same writer
\* exactly when the plan has more than 3 sections.
C25_RoundRobinFixedPool ==
    /\ PoolSize = 3
    /\ DOMAIN inbox = 0 .. 2
    /\ \A w \in DOMAIN inbox : \A i \in inbox[w] : w = (i - 1) % 3
    /\ \A i \in assigned : \E w \in DOMAIN inbox : i \in inbox[w]
    /\ assigned = Tasks => (WriterShared <=> nSections > 3)

\* C25 witness: the first and the fourth section are both with writer 0.
C25_Witness ==
    /\ nSections > PoolSize
    /\ {1, PoolSize + 1} \subseteq inbox[0]
    /\ assigned = Tasks

\* every section task has ended
TasksEnded == \A i \in Tasks : tpc[i] \in {"idle", "failed", "completed"}

\* C27: once the scope of a run is cancelled or timed out, the run comes to
\* a state where every section task has ended (those waiting for a limiter
\* slot included) and WriteArticle has returned, whether or not any role
\* answers.
C27_CancelledRunReturns ==
    ctxDone ~> (Done /\ TasksEnded)

\* C27 witness: the run returned with the scope's error after the scope was
\* cancelled during the writing phase with no writer having answered, one
\* task having waited for a limiter slot.
C27_Witness ==
    /\ Done
    /\ cancelledAt = "write_join"
    /\ handled = {}
    /\ nSections > maxConcurrentWriters
    /\ \A i \in Tasks : tpc[i] = "failed"
    /\ \E i \in Tasks : i \notin assigned
    /\ \E i \in Tasks : i \in assigned
    /\ outcome.err = ScopeErr


(***************************************************************************)
(* writeSections statement by statement: the lock mu, each goroutine's     *)
(* local variables, and the accesses to the variables mu is there to      *)
(* guard.  writeSection is seen as a call that returns a content or an    *)
(* error.                                                                  *)
(***************************************************************************)
NoLocal == [err |-> NoErr, content |-> NoContent, currentProgress |-> 0]

\* an access of task i to a variable shared by the section goroutines
Access(i, variable, op) ==
    [task |-> i, variable |-> variable, op |-> op, locked |-> mu = i]

\* WriteArticle has called writeSections, which has started its goroutines
LockInit ==
    /\ nSections \in 1 .. MaxLockSections
    /\ maxConcurrentWriters \in 1 .. MaxLockWriters
    /\ pc = "write_join"
    /\ cancelledAt = "none"
    /\ started = Roles
    /\ stopped = {}
    /\ stopResult = {}
    /\ outcome = NoReturn
    /\ ret = NoReturn
    /\ planRequested = TRUE
    /\ planHandled = TRUE
    /\ planEvt = PlannerHandle
    /\ plannerOut = <<>>
    /\ plannerErr = 0
    /\ assigned = {}
    /\ inbox = [w \in Writers |-> {}]
    /\ handled = {}
    /\ writerOut = [w \in Writers |-> <<>>]
    /\ writerErr = [w \in Writers |-> 0]
    /\ written = <<>>
    /\ editRequested = FALSE
    /\ editHandled = FALSE
    /\ editorOut = <<>>
    /\ editorErr = 0
    /\ editEvt = NoEvent
    /\ tpc = [i \in 1 .. nSections |-> "spawned"]
    /\ semaphore = 0
    /\ holds = {}
    /\ sections = [i \in 1 .. nSections |-> NoContent]
    /\ taken = [i \in 1 .. nSections |-> NoID]
    /\ writeErr = NoErr
    /\ completedSections = 0
    /\ faults = 0
    /\ mu = 0
    /\ local = [i \in 1 .. nSections |-> NoLocal]
    /\ access = {}
    /\ PlanIdle /\ KBInit /\ TrackerIdle /\ ChanInit /\ KBLockIdle /\ MetaIdle

\* what the goroutines of writeSections leave alone
lockFrame == <<nSections, maxConcurrentWriters, pc, started, stopped, stopResult,
               outcome, ret, plannerVars, writerVars, written, editorVars,
               taken, faults, planVars, kbVars, trackerVars, chanVars,
               kbLockVars, metaVars>>

\* the scope of the run is cancelled or times out
LockCancel ==
    /\ cancelledAt = "none"
    /\ cancelledAt' = pc
    /\ access' = {}
    /\ UNCHANGED <<lockFrame, tpc, semaphore, holds, sections, writeErr,
                   completedSections, lastEvent, mu, local>>

\* `semaphore <- struct{}{}`
Acquire(i) ==
    /\ tpc[i] = "spawned"
    /\ CanAcquire(semaphore, maxConcurrentWriters)
    /\ semaphore' = semaphore + 1
    /\ holds' = holds \cup {i}
    /\ tpc' = [tpc EXCEPT ![i] = "acquired"]
    /\ access' = {}
    /\ UNCHANGED <<lockFrame, cancelledAt, sections, writeErr,
                   completedSections, lastEvent, mu, local>>

\* `select { case <-ctx.Done(): ...; default: }`, then the section-start
\* event and the call of writeSection
CheckScope(i) ==
    /\ tpc[i] = "acquired"
    /\ IF Cancelled(ctxDone)
          THEN /\ local' = [local EXCEPT ![i].err = ScopeErr]
               /\ tpc' = [tpc EXCEPT ![i] = "failing"]
               /\ lastEvent' = lastEvent
          ELSE /\ EmitSubProgress("writing", GetPhaseBaseProgress("writing"),
                                  0, WritingWeight)
               /\ tpc' = [tpc EXCEPT ![i] = "writing"]
               /\ local' = local
    /\ access' = {}
    /\ UNCHANGED <<lockFrame, cancelledAt, semaphore, holds, sections, writeErr,
                   completedSections, mu>>

\* content, err := o.writeSection(...): the content of the section, a role's
\* error, or the scope's error once the scope is done
WriteSectionReturns(i) ==
    /\ tpc[i] = "writing"
    /\ \/ /\ local' = [local EXCEPT ![i].content = [SectionID |-> i]]
          /\ tpc' = [tpc EXCEPT ![i] = "storing"]
       \/ /\ \E err \in {Err("role")} \cup (IF ScopeWatched(ctxDone)
                                              THEN {ScopeErr} ELSE {}) :
                local' = [local EXCEPT ![i].err = err]
          /\ tpc' = [tpc EXCEPT ![i] = "failing"]
    /\ access' = {}
    /\ UNCHANGED <<lockFrame, cancelledAt, semaphore, holds, sections, writeErr,
                   completedSections, lastEvent, mu>>

\* mu.Lock() goes through only while no goroutine holds mu
LockFree(holder) == holder = 0
Lock(i) ==
    /\ tpc[i] \in {"failing", "storing"}
    /\ LockFree(mu)
    /\ mu' = i
    /\ tpc' = [tpc EXCEPT ![i] = IF tpc[i] = "failing" THEN "recording"
                                                       ELSE "counting"]
    /\ access' = {}
    /\ UNCHANGED <<lockFrame, cancelledAt, semaphore, holds, sections, writeErr,
                   completedSections, lastEvent, local>>

\* `if writeErr == nil { writeErr = err }; mu.Unlock(); return`, with the
\* deferred `<-semaphore` and wg.Done()
RecordError(i) ==
    /\ tpc[i] = "recording"
    /\ writeErr' = FirstError(writeErr, local[i].err)
    /\ access' = {Access(i, "writeErr", "read")}
                    \cup (IF writeErr = NoErr
                          THEN {Access(i, "writeErr", "write")} ELSE {})
    /\ mu' = IF mu = i THEN 0 ELSE mu
    /\ semaphore' = semaphore - 1
    /\ holds' = holds \ {i}
    /\ tpc' = [tpc EXCEPT ![i] = "failed"]
    /\ UNCHANGED <<lockFrame, cancelledAt, sections, completedSections,
                   lastEvent, local>>

\* `sections[index] = content; completedSections++; currentProgress := ...;
\* mu.Unlock()`
StoreAndCount(i) ==
    /\ tpc[i] = "counting"
    /\ sections' = [sections EXCEPT ![i] = local[i].content]
    /\ completedSections' = completedSections + 1
    /\ local' = [local EXCEPT ![i].currentProgress =
                    CurrentProgress(completedSections + 1, nSections)]
    /\ access' = {Access(i, "completedSections", "read"),
                  Access(i, "completedSections", "write")}
    /\ mu' = IF mu = i THEN 0 ELSE mu
    /\ tpc' = [tpc EXCEPT ![i] = "emitting"]
    /\ UNCHANGED <<lockFrame, cancelledAt, semaphore, holds, writeErr, lastEvent>>

\* the section-completion event, whose details are built from
\* completedSections and totalSections, then the deferred `<-semaphore` and
\* wg.Done()
EmitCompletion(i) ==
    /\ tpc[i] = "emitting"
    /\ EmitSubProgress("writing", GetPhaseBaseProgress("writing"),
                       local[i].currentProgress, WritingWeight)
    /\ access' = {Access(i, "completedSections", "read")}
    /\ semaphore' = semaphore - 1
    /\ holds' = holds \ {i}
    /\ tpc' = [tpc EXCEPT ![i] = "completed"]
    /\ UNCHANGED <<lockFrame, cancelledAt, sections, writeErr,
                   completedSections, mu, local>>

LockNext ==
    \/ LockCancel
    \/ \E i \in Tasks : Acquire(i)
    \/ \E i \in Tasks : CheckScope(i)
    \/ \E i \in Tasks : WriteSectionReturns(i)
    \/ \E i \in Tasks : Lock(i)
    \/ \E i \in Tasks : RecordError(i)
    \/ \E i \in Tasks : StoreAndCount(i)
    \/ \E i \in Tasks : EmitCompletion(i)

SpecLock == LockInit /\ [][LockNext]_vars

\* C22: every access of a section task to the completed-section counter and
\* to the first-recorded error is made while the task holds mu, and no task
\* holds mu while it is in its writer round trip.
C22_AccessesUnderLock ==
    /\ \A a \in access : a.locked
    /\ \A i \in Tasks : tpc[i] = "writing" => mu # i


(***************************************************************************)
(* Plan parsing (PlannerHandler.parsePlanResponse, validatePlan,          *)
(* generateSectionID).  The repository holds two PlannerHandler sources:  *)
(* the handler that plans with research tools, which NewOrchestrator      *)
(* builds, and the handler that plans from the knowledge base.  A string  *)
(* is the sequence of its characters.                                     *)
(***************************************************************************)
\* most sections of a plan the model answers with
MaxPlanSections == 2

EmptyString == <<>>
\* plan titles, section titles, section IDs and word counts the model's
\* answer may carry
PlanTitles == {EmptyString, <<"T">>}
SectionTitles == {EmptyString, <<"a", " ", "b">>, <<"A", " ", "b", "!">>}
SectionIDs == {EmptyString, <<"a", "_", "b">>}
WordCounts == {-1, 0, 1, 2}
DeclaredTotals == {0, 3}

\* DocumentSection and DocumentPlan, with the fields parsing reads or writes
DocumentSections == [ID : SectionIDs, Title : SectionTitles, WordCount : WordCounts]
ZeroPlan == [Title |-> EmptyString, Sections |-> <<>>, TotalWords |-> 0]

\* LLMPlanResponse: introduction and conclusion are single parts, the main
\* sections a list
LLMParts == [Title : {EmptyString, <<"a", " ", "b">>}, WordCountTarget : {0, 2}]
LLMSections == [Title : SectionTitles, WordCountTarget : WordCounts]

\* llm.ParseJSON found no value of the asked type in the answer (an error or
\* an empty list)
ParseError == [ok |-> FALSE]
ParseOK(value) == [ok |-> TRUE, value |-> value]

\* What llm.ParseJSON makes of an answer written in the other format, when it
\* does not fail: the fields are matched by their json tags, "sections" and
\* the sections' "title" are the only tags both formats have, and a field
\* with no matching key keeps its zero value.
DocumentPlanAsLLM(plan) ==
    [ArticleTitle |-> EmptyString,
     TargetWordCount |-> 0,
     Introduction |-> [Title |-> EmptyString, WordCountTarget |-> 0],
     Sections |-> [k \in DOMAIN plan.Sections |->
                     [Title |-> plan.Sections[k].Title, WordCountTarget |-> 0]],
     Conclusion |-> [Title |-> EmptyString, WordCountTarget |-> 0]]
LLMAsDocumentPlan(llmPlan) ==
    [Title |-> EmptyString,
     Sections |-> [k \in DOMAIN llmPlan.Sections |->
                     [ID |-> EmptyString, Title |-> llmPlan.Sections[k].Title,
                      WordCount |-> 0]],
     TotalWords |-> 0]

\* The answers of the model: a DocumentPlan document, an LLMPlanResponse
\* document, or no JSON document at all.  `doc` is the result of
\* llm.ParseJSON[DocumentPlan], `llm` the result of
\* llm.ParseJSON[LLMPlanResponse]; reading a document of the other format
\* either fails or yields the other format's view of it.
DocumentPlanResponses(plan) ==
    {[format |-> "document_plan", doc |-> ParseOK(plan), llm |-> l] :
        l \in {ParseError, ParseOK(DocumentPlanAsLLM(plan))}}
LLMPlanResponsesOf(llmPlan) ==
    {[format |-> "llm_plan", doc |-> d, llm |-> ParseOK(llmPlan)] :
        d \in {ParseError, ParseOK(LLMAsDocumentPlan(llmPlan))}}
TextResponse == [format |-> "text", doc |-> ParseError, llm |-> ParseError]

RECURSIVE SumWordCount(_)
SumWordCount(secs) ==
    IF secs = <<>> THEN 0
    ELSE secs[1].WordCount + SumWordCount(Tail(secs))

\* validatePlan(plan DocumentPlan) error: the plan is passed by value, so the
\* TotalWords the function sets is that of its own copy (field `plan`); the
\* caller receives the error only.
BadSections(plan) ==
    {k \in DOMAIN plan.Sections :
        plan.Sections[k].Title = EmptyString \/ plan.Sections[k].WordCount <= 0}
FirstBadSection(plan) ==
    CHOOSE k \in BadSections(plan) : \A j \in BadSections(plan) : k <= j
validatePlan(plan) ==
    IF plan.Title = EmptyString
    THEN [err |-> Err("plan_title"), plan |-> plan]
    ELSE IF Len(plan.Sections) = 0
    THEN [err |-> Err("no_sections"), plan |-> plan]
    ELSE IF BadSections(plan) # {}
    THEN [err |-> IF plan.Sections[FirstBadSection(plan)].Title = EmptyString
                  THEN Err("section_title")
                  ELSE Err("section_word_count"),
          plan |-> plan]
    ELSE [err |-> NoErr,
          plan |-> IF plan.TotalWords = 0
                      \/ plan.TotalWords # SumWordCount(plan.Sections)
                   THEN [plan EXCEPT !.TotalWords = SumWordCount(plan.Sections)]
                   ELSE plan]

\* generateSectionID(index, title): spaces become "_", letters are lowered,
\* every rune other than a-z, 0-9 and "_" is dropped; the index is not used.
ReplaceSpaces(str) == [k \in DOMAIN str |-> IF str[k] = " " THEN "_" ELSE str[k]]
Upper == <<"A", "B", "C", "D", "E", "F", "G", "H", "I", "J", "K", "L", "M",
           "N", "O", "P", "Q", "R", "S", "T", "U", "V", "W", "X", "Y", "Z">>
Lower == <<"a", "b", "c", "d", "e", "f", "g", "h", "i", "j", "k", "l", "m",
           "n", "o", "p", "q", "r", "s", "t", "u", "v", "w", "x", "y", "z">>
Digits == {"0", "1", "2", "3", "4", "5", "6", "7", "8", "9"}
ToLowerRune(r) ==
    IF \E k \in DOMAIN Upper : Upper[k] = r
    THEN Lower[CHOOSE k \in DOMAIN Upper : Upper[k] = r]
    ELSE r
ToLower(str) == [k \in DOMAIN str |-> ToLowerRune(str[k])]
KeptRune(r) ==
    \/ \E k \in DOMAIN Lower : Lower[k] = r
    \/ r \in Digits
    \/ r = "_"
generateSectionID(index, title) == SelectSeq(ToLower(ReplaceSpaces(title)), KeptRune)

\* "Generate section IDs if missing": for i := range plan.Sections
FillSectionIDs(plan) ==
    LET secs == plan.Sections
    IN  [plan EXCEPT !.Sections =
            [k \in DOMAIN secs |->
                IF secs[k].ID = EmptyString
                THEN [secs[k] EXCEPT !.ID = generateSectionID(k - 1, secs[k].Title)]
                ELSE secs[k]]]

\* "Convert LLM format to DocumentPlan format"
ConvertPart(index, part) ==
    IF part.Title = EmptyString THEN <<>>
    ELSE <<[ID |-> generateSectionID(index, part.Title),
            Title |-> part.Title,
            WordCount |-> part.WordCountTarget]>>
ConvertLLMPlan(llmPlan) ==
    LET intro == ConvertPart(0, llmPlan.Introduction)
        main == [k \in DOMAIN llmPlan.Sections |->
                    [ID |-> generateSectionID(k, llmPlan.Sections[k].Title),
                     Title |-> llmPlan.Sections[k].Title,
                     WordCount |-> llmPlan.Sections[k].WordCountTarget]]
    IN  [Title |-> llmPlan.ArticleTitle,
         Sections |-> intro \o main
                      \o ConvertPart(Len(intro \o main), llmPlan.Conclusion),
         TotalWords |-> llmPlan.TargetWordCount]

PlanResult(plan, err) == [plan |-> plan, err |-> err]

\* parsePlanResponse of the handler that plans with research tools
parsePlanResponse(resp) ==
    IF resp.doc.ok /\ validatePlan(resp.doc.value).err = NoErr
    THEN PlanResult(FillSectionIDs(resp.doc.value), NoErr)
    ELSE IF ~resp.llm.ok
    THEN PlanResult(ZeroPlan, Err("parse"))
    ELSE LET plan == ConvertLLMPlan(resp.llm.value)
         IN  IF validatePlan(plan).err # NoErr
             THEN PlanResult(ZeroPlan, validatePlan(plan).err)
             ELSE PlanResult(plan, NoErr)

\* parsePlanResponse of the handler that plans from the knowledge base:
\*     if err := h.validatePlan(plan); err == nil {
\*         return DocumentPlan{}, errors.WithStack(err)
\*     }
\* errors.WithStack(nil) is nil.
parsePlanResponseKB(resp) ==
    IF ~resp.doc.ok
    THEN PlanResult(ZeroPlan, Err("parse"))
    ELSE IF validatePlan(resp.doc.value).err = NoErr
    THEN PlanResult(ZeroPlan, NoErr)
    ELSE PlanResult(FillSectionIDs(resp.doc.value), NoErr)

PlanInit ==
    /\ OrchIdle /\ KBInit /\ TrackerIdle /\ ChanInit /\ RestIdle
    /\ \/ \E n \in 0 .. MaxPlanSections :
            \E secs \in [1 .. n -> DocumentSections] :
                \E title \in PlanTitles, total \in DeclaredTotals :
                    response \in DocumentPlanResponses(
                        [Title |-> title, Sections |-> secs, TotalWords |-> total])
       \/ \E n \in 0 .. (MaxPlanSections - 1) :
            \E secs \in [1 .. n -> LLMSections] :
                \E title \in PlanTitles, total \in DeclaredTotals,
                   intro \in LLMParts, conclusion \in LLMParts :
                    response \in LLMPlanResponsesOf(
                        [ArticleTitle |-> title, TargetWordCount |-> total,
                         Introduction |-> intro, Sections |-> secs,
                         Conclusion |-> conclusion])
       \/ response = TextResponse
    /\ parsed = NotParsed

\* generatePlanWithResearch / generatePlan: plan, err := h.parsePlanResponse(...)
ParsePlan ==
    /\ parsed = NotParsed
    /\ parsed' = [by |-> "research", result |-> parsePlanResponse(response)]
    /\ UNCHANGED <<orchVars, kbVars, trackerVars, lastEvent, chanVars, response>>
ParsePlanKB ==
    /\ parsed = NotParsed
    /\ parsed' = [by |-> "knowledge_base", result |-> parsePlanResponseKB(response)]
    /\ UNCHANGED <<orchVars, kbVars, trackerVars, lastEvent, chanVars, response>>

PlanNext ==
    \/ ParsePlan
    \/ ParsePlanKB

SpecPlan == PlanInit /\ [][PlanNext]_vars

\* Handle sends NewDocumentPlanEvent(..., plan, ...) to outputs when
\* parsePlanResponse returned no error
PlanEmitted == parsed # NotParsed /\ parsed.result.err = NoErr

\* the plan validatePlan accepted during the parse, if any
Validated(resp, by) ==
    IF resp.doc.ok /\ validatePlan(resp.doc.value).err = NoErr
    THEN {resp.doc.value}
    ELSE IF by = "research" /\ resp.llm.ok
            /\ validatePlan(ConvertLLMPlan(resp.llm.value)).err = NoErr
    THEN {ConvertLLMPlan(resp.llm.value)}
    ELSE {}

\* C11: whenever a plan passed validation, the plan the planner hands on has
\* TotalWords equal to the sum of the WordCount of the validated plan's
\* sections, whatever TotalWords the plan declared.
C11_TotalWordsNormalised ==
    parsed # NotParsed =>
        \A plan \in Validated(response, parsed.by) :
            /\ parsed.result.err = NoErr
            /\ parsed.result.plan.TotalWords = SumWordCount(plan.Sections)

\* the plan an answer states, as the handler `by` reads it
StatedPlan(resp, by) ==
    IF resp.format = "document_plan" THEN {resp.doc.value}
    ELSE IF resp.format = "llm_plan" /\ by = "research"
    THEN {ConvertLLMPlan(resp.llm.value)}
    ELSE {}

\* the three defects of the ValidationError taxonomy
Defective(plan) ==
    \/ plan.Title = EmptyString
    \/ Len(plan.Sections) = 0
    \/ \E k \in DOMAIN plan.Sections : plan.Sections[k].WordCount <= 0

SectionsIntact(got, stated) ==
    /\ Len(got) = Len(stated)
    /\ \A k \in DOMAIN stated :
        /\ got[k].Title = stated[k].Title
        /\ got[k].WordCount = stated[k].WordCount

\* C12: a stated plan with an empty title, no sections or a section word
\* count <= 0 is rejected with an error (it is not emitted), and every other
\* stated plan is returned without error with its title and sections intact.
C12_ValidationRejectsAndAccepts ==
    parsed # NotParsed =>
        \A plan \in StatedPlan(response, parsed.by) :
            IF Defective(plan)
            THEN parsed.result.err # NoErr
            ELSE /\ parsed.result.err = NoErr
                 /\ parsed.result.plan.Title = plan.Title
                 /\ SectionsIntact(parsed.result.plan.Sections, plan.Sections)

\* C20: in a plan that parsing returns, with the missing section IDs filled
\* in, no two sections have the same ID.
C20_SectionIDsDistinct ==
    PlanEmitted =>
        \A j, k \in DOMAIN parsed.result.plan.Sections :
            j # k => parsed.result.plan.Sections[j].ID
                     # parsed.result.plan.Sections[k].ID


(***************************************************************************)
(* KnowledgeBase: the ID-keyed map and the text index (bleve), both under *)
(* kb.mutex; every method holds the lock from entry to return, so a call  *)
(* is one step.                                                            *)
(***************************************************************************)
\* distinct document IDs
MaxDocIDs == 2
\* most AddDocument calls on one KnowledgeBase
MaxAdds == 2
\* largest limit passed to Search
MaxLimit == 2

DocIDs == 1 .. MaxDocIDs
Contents == {"x", "y"}
\* ResearchDocument; Relevance is 0 at ingestion
SourceTypes == {"web", "pdf"}
ResearchDocuments ==
    [ID : DocIDs, Content : Contents, SourceType : SourceTypes, Relevance : {0}]
\* ResearchDocument{}: ID 0 stands for the empty string
ZeroResearchDocument ==
    [ID |-> 0, Content |-> "", SourceType |-> "", Relevance |-> 0]
\* hit.Score of a search hit
Score == 1

\* kb.documents[id] = doc
PutIfAbsent(docs, id, doc) ==
    [k \in DOMAIN docs \cup {id} |-> IF k \in DOMAIN docs THEN docs[k] ELSE doc]
Put(docs, id, doc) ==
    [k \in DOMAIN docs \cup {id} |-> IF k = id THEN doc ELSE docs[k]]

\* kb.index.Index(doc.ID, doc): the engine indexes the document or fails
IndexResults == {NoErr, Err("index")}

\* AddDocument: the map entry is written first, then the document is indexed
AddDocument(doc) ==
    /\ Len(history) < MaxAdds
    /\ \E err \in IndexResults :
        /\ documents' = Put(documents, doc.ID, doc)
        /\ kbIndex' = IF err = NoErr THEN kbIndex \cup {doc.ID} ELSE kbIndex
        /\ history' = Append(history, [doc |-> doc, err |-> err])
        /\ kbReturn' = [op |-> "AddDocument", err |-> err]
    /\ UNCHANGED <<orchVars, planVars, trackerVars, lastEvent, chanVars>>

\* searchResults.Hits: which indexed documents match the query, and in which
\* order, is the engine's answer; it returns at most searchRequest.Size hits
Injective(f) == \A j, k \in DOMAIN f : j # k => f[j] # f[k]
Min(a, b) == IF a <= b THEN a ELSE b
HitListsAnySize(ids, size) ==
    {hits \in UNION {[1 .. n -> ids] : n \in 0 .. Cardinality(ids)} :
        Injective(hits)}
HitLists(ids, size) ==
    {hits \in UNION {[1 .. n -> ids] : n \in 0 .. Min(size, Cardinality(ids))} :
        Injective(hits)}

\* for _, hit := range searchResults.Hits: hits absent from the map are skipped
RECURSIVE Results(_, _)
Results(hits, docs) ==
    IF hits = <<>> THEN <<>>
    ELSE (IF hits[1] \in DOMAIN docs
          THEN <<[docs[hits[1]] EXCEPT !.Relevance = Score]>>
          ELSE <<>>) \o Results(Tail(hits), docs)

\* Search(query, limit): kb.index.Search fails (the engine rejects the query)
\* or answers with hits
Search(limit) ==
    /\ \/ kbReturn' = [op |-> "Search", limit |-> limit, docs |-> <<>>,
                       err |-> Err("search")]
       \/ \E hits \in HitLists(kbIndex, limit) :
            kbReturn' = [op |-> "Search", limit |-> limit,
                         docs |-> Results(hits, documents), err |-> NoErr]
    /\ UNCHANGED <<orchVars, planVars, trackerVars, lastEvent, chanVars,
                   documents, kbIndex, history>>

\* GetByID(id)
GetByID(id) ==
    /\ kbReturn' = IF id \in DOMAIN documents
                   THEN [op |-> "GetByID", id |-> id, doc |-> documents[id],
                         err |-> NoErr]
                   ELSE [op |-> "GetByID", id |-> id, doc |-> ZeroResearchDocument,
                         err |-> Err("not_found")]
    /\ UNCHANGED <<orchVars, planVars, trackerVars, lastEvent, chanVars,
                   documents, kbIndex, history>>

KBNext ==
    \/ \E doc \in ResearchDocuments : AddDocument(doc)
    \/ \E limit \in 0 .. MaxLimit : Search(limit)
    \/ \E id \in DocIDs : GetByID(id)

KBStart == OrchIdle /\ PlanIdle /\ KBInit /\ TrackerIdle /\ ChanInit /\ RestIdle
SpecKB == KBStart /\ [][KBNext]_vars

\* C13: the IDs of the map are the IDs of the text index, also after an
\* AddDocument whose indexing failed (which must leave both as they were).
C13_MapMatchesIndex == DOMAIN documents = kbIndex

\* the IDs some AddDocument call so far added without error
AddedIDs == {history[k].doc.ID : k \in {j \in DOMAIN history : history[j].err = NoErr}}

SearchBounded ==
    /\ Len(kbReturn.docs) <= kbReturn.limit
    /\ \A k \in DOMAIN kbReturn.docs : kbReturn.docs[k].ID \in AddedIDs

\* C14 as stated: Search returns at most `limit` documents, each with the ID
\* of a document added before, and on a KnowledgeBase to which nothing was
\* added it returns an empty result and no error.
C14_SearchAsStated ==
    kbReturn.op = "Search" =>
        /\ SearchBounded
        /\ history = <<>> => (kbReturn.docs = <<>> /\ kbReturn.err = NoErr)

\* C14, amended: Search returns at most `limit` documents, each with the ID
\* of a document added before; on a KnowledgeBase to which nothing was added
\* the result is empty, and the only error is the one of the index search
\* itself, returned with an empty result.
C14_SearchBounded ==
    kbReturn.op = "Search" =>
        /\ SearchBounded
        /\ history = <<>> => kbReturn.docs = <<>>
        /\ kbReturn.err \in {NoErr, Err("search")}
        /\ kbReturn.err # NoErr => kbReturn.docs = <<>>

\* a search that fills its limit while the index holds more documents
C14_Witness ==
    /\ kbReturn.op = "Search"
    /\ kbReturn.err = NoErr
    /\ kbReturn.limit > 0
    /\ Len(kbReturn.docs) = kbReturn.limit
    /\ Cardinality(kbIndex) > kbReturn.limit

\* the AddDocument calls so far that carried the ID id
CallsOf(id) == {k \in DOMAIN history : history[k].doc.ID = id}
LastCallOf(id) == history[CHOOSE k \in CallsOf(id) : \A j \in CallsOf(id) : j <= k]
EqualExceptRelevance(d1, d2) == d1.ID = d2.ID /\ d1.Content = d2.Content

ProgressValues == {-10, 0, 1, 50, 99, 100, 120}
SubProgressValues == {0, 50, 100}

\* the phases that carry a weight, in pipeline order, with the phase that
\* ends the pipeline
Pipeline == <<"planning", "writing", "editing", "completed">>
PhaseWeight(phase) ==
    CASE phase = "planning" -> PlanningWeight
      [] phase = "writing" -> WritingWeight
      [] phase = "editing" -> EditingWeight
WeightedPhases == {"planning", "writing", "editing"}
NextPhase(phase) == Pipeline[(CHOOSE k \in DOMAIN Pipeline : Pipeline[k] = phase) + 1]

TrackerInit ==
    /\ elapsed = 0
    /\ hasCallback \in BOOLEAN
    /\ lastEvent = NoProgressEvent

\* time.Since(pt.startTime) grows
Tick ==
    /\ elapsed < MaxElapsed
    /\ elapsed' = elapsed + 1
    /\ UNCHANGED <<orchVars, planVars, kbVars, chanVars, hasCallback, lastEvent>>

\* a role handler: tracker.EmitProgress(phase, step, progress, details)
CallEmitProgress(phase, progress) ==
    /\ EmitProgress(phase, [kind |-> "progress"], progress)
    /\ UNCHANGED <<orchVars, planVars, kbVars, chanVars, trackerVars>>

\* the orchestrator: tracker.EmitPhaseStart(phase, ..., GetPhaseBaseProgress(phase))
CallEmitPhaseStart(phase) ==
    /\ EmitPhaseStart(phase, GetPhaseBaseProgress(phase))
    /\ UNCHANGED <<orchVars, planVars, kbVars, chanVars, trackerVars>>

\* the orchestrator: tracker.EmitPhaseComplete(phase, ...,
\* GetPhaseBaseProgress(<the next phase>))
CallEmitPhaseComplete(phase) ==
    /\ EmitPhaseComplete(phase, GetPhaseBaseProgress(NextPhase(phase)))
    /\ UNCHANGED <<orchVars, planVars, kbVars, chanVars, trackerVars>>

\* the orchestrator and the handlers: tracker.EmitSubProgress(phase, ...,
\* GetPhaseBaseProgress(phase), subProgress, <the phase's weight>, ...)
CallEmitSubProgress(phase, subProgress) ==
    /\ EmitSubProgress(phase, GetPhaseBaseProgress(phase), subProgress,
                       PhaseWeight(phase))
    /\ UNCHANGED <<orchVars, planVars, kbVars, chanVars, trackerVars>>

ProgressNext ==
    \/ Tick
    \/ \E phase \in ProgressPhases, progress \in ProgressValues :
        CallEmitProgress(phase, progress)
    \/ \E phase \in WeightedPhases : CallEmitPhaseStart(phase)
    \/ \E phase \in WeightedPhases : CallEmitPhaseComplete(phase)
    \/ \E phase \in WeightedPhases, subProgress \in SubProgressValues :
        CallEmitSubProgress(phase, subProgress)

ProgressInit ==
    OrchIdle /\ PlanIdle /\ KBInit /\ TrackerInit /\ ChanInit /\ RestIdle
SpecProgress == ProgressInit /\ [][ProgressNext]_vars

\* the sum of the weights of the pipeline phases before position k
RECURSIVE WeightBefore(_)
WeightBefore(k) ==
    IF k <= 1 THEN 0 ELSE WeightBefore(k - 1) + PhaseWeight(Pipeline[k - 1])
PositionOf(phase) == CHOOSE k \in DOMAIN Pipeline : Pipeline[k] = phase

\* C16: the base progress of a phase is the sum of the weights of the phases
\* before it in pipeline order: every phase start is emitted at that sum,
\* every phase completion and every finished sub-progress at the sum for the
\* next phase, and the sum for Completed is 1.
C16_BaseIsSumOfWeights ==
    /\ GetPhaseBaseProgress("completed") = FullProgress
    /\ (lastEvent # NoProgressEvent /\ lastEvent.phase \in WeightedPhases) =>
        /\ lastEvent.details.kind = "phase_start" =>
            lastEvent.progress = WeightBefore(PositionOf(lastEvent.phase))
        /\ lastEvent.details.kind = "phase_complete" =>
            lastEvent.progress = WeightBefore(PositionOf(lastEvent.phase) + 1)
        /\ (lastEvent.details.kind = "sub_progress"
            /\ lastEvent.details.sub_progress = FullProgress) =>
            /\ lastEvent.progress = WeightBefore(PositionOf(lastEvent.phase) + 1)
            /\ lastEvent.progress
               = GetPhaseBaseProgress(NextPhase(lastEvent.phase))

\* the editing phase starts at the weights of planning and writing
C16_Witness ==
    /\ lastEvent # NoProgressEvent
    /\ lastEvent.phase = "editing"
    /\ lastEvent.details.kind = "phase_start"
    /\ lastEvent.progress = PlanningWeight + WritingWeight

\* elapsed / progress, truncated to a whole number of ticks
Quotient(evt) == (evt.elapsedTime * FullProgress) \div evt.progress
Partial(evt) == evt.progress > 0 /\ evt.progress < FullProgress

\* C17 as stated: every event carries EstimatedTimeRemaining equal to
\* elapsed/progress - elapsed when 0 < progress < 1 (then never negative),
\* and exactly 0 when progress >= 1 or progress <= 0.
C17_RemainingAsStated ==
    lastEvent # NoProgressEvent =>
        IF Partial(lastEvent)
        THEN /\ lastEvent.estimatedTimeRemaining
                = Quotient(lastEvent) - lastEvent.elapsedTime
             /\ lastEvent.estimatedTimeRemaining >= 0
        ELSE lastEvent.estimatedTimeRemaining = 0

\* C17, amended: every event carries an EstimatedTimeRemaining that is never
\* negative, exactly 0 when progress >= 1 or progress <= 0, and, when
\* 0 < progress < 1 and elapsed/progress fits a Duration, equal to
\* elapsed/progress (truncated) - elapsed.
C17_RemainingEstimate ==
    lastEvent # NoProgressEvent =>
        /\ lastEvent.estimatedTimeRemaining >= 0
        /\ ~Partial(lastEvent) => lastEvent.estimatedTimeRemaining = 0
        /\ (Partial(lastEvent) /\ Quotient(lastEvent) <= MaxDuration) =>
            lastEvent.estimatedTimeRemaining
            = Quotient(lastEvent) - lastEvent.elapsedTime

\* an event emitted half way, some time after the start
C17_Witness ==
    /\ lastEvent # NoProgressEvent
    /\ Partial(lastEvent)
    /\ lastEvent.elapsedTime > 0
    /\ Quotient(lastEvent) <= MaxDuration
    /\ lastEvent.estimatedTimeRemaining = lastEvent.elapsedTime


(***************************************************************************)
(* ProgressEventChannel: a buffered channel and a callback that sends to  *)
(* it with select/default.  An event is named by the number of the        *)
(* callback call that carried it.                                         *)
(***************************************************************************)
\* most callback calls
MaxEmits == 12
\* make(chan ProgressEvent, 10)
ChannelCapacity == 10

\* `case ch <- event` is ready while the buffer has room
CanSendAlways(buffer) == TRUE
CanSend(buffer) == Len(buffer) < ChannelCapacity

\* callback(event): select { case ch <- event: default: }
Callback ==
    /\ emitted < MaxEmits
    /\ emitted' = emitted + 1
    /\ IF CanSend(ch)
       THEN ch' = Append(ch, emitted + 1)
       ELSE ch' = ch
    /\ lastCallback' = [op |-> "callback", event |-> emitted + 1,
                        buffered |-> Len(ch), sent |-> CanSend(ch)]
    /\ UNCHANGED <<orchVars, planVars, kbVars, trackerVars, lastEvent,
                   lastReceived>>

\* a reader of the returned channel: <-ch
Receive ==
    /\ ch # <<>>
    /\ lastReceived' = Head(ch)
    /\ ch' = Tail(ch)
    /\ UNCHANGED <<orchVars, planVars, kbVars, trackerVars, lastEvent, emitted,
                   lastCallback>>

ChanNext ==
    \/ Callback
    \/ Receive

ChanStart == OrchIdle /\ PlanIdle /\ KBInit /\ TrackerIdle /\ ChanInit /\ RestIdle
SpecChannel == ChanStart /\ [][ChanNext]_vars

\* C18: the callback returns in every state of the channel (it never
\* blocks); an event is dropped exactly when 10 events were undelivered at
\* the call, and then the queue is left as it was; the queue never holds more
\* than 10 events; the events are delivered in the order they were emitted.
C18_NonBlockingBoundedFIFO ==
    /\ emitted < MaxEmits => ENABLED Callback
    /\ Len(ch) <= ChannelCapacity
    /\ lastCallback.op = "callback" =>
        /\ lastCallback.sent <=> lastCallback.buffered < ChannelCapacity
        /\ lastCallback.event = emitted
        /\ ~lastCallback.sent => \A k \in DOMAIN ch : ch[k] # lastCallback.event
    /\ \A k \in DOMAIN ch :
        /\ ch[k] <= emitted
        /\ IF k = 1 THEN lastReceived < ch[k] ELSE ch[k - 1] < ch[k]

\* an event dropped on a full queue after earlier events were delivered
C18_Witness ==
    /\ lastCallback.op = "callback"
    /\ ~lastCallback.sent
    /\ Len(ch) = ChannelCapacity
    /\ lastReceived > 0


(***************************************************************************)
(* KnowledgeBase under concurrent callers: kb.mutex is a sync.RWMutex,    *)
(* AddDocument holds it exclusively from entry to return, every reading   *)
(* method holds it shared while it reads.                                  *)
(***************************************************************************)
Callers == 1 .. MaxCallers
IdleCaller == [at |-> "idle"]
\* the methods that read under kb.mutex.RLock()
IndexReaders == {"Search", "FindByKeywords", "FindBySourceType"}
MapReaders == {"GetByID", "GetAllDocuments", "GetStats"}

KBLockStart ==
    /\ OrchIdle /\ PlanIdle /\ KBInit /\ TrackerIdle /\ ChanInit
    /\ LockIdle /\ MetaIdle
    /\ kbMutex = [writer |-> 0, readers |-> {}]
    /\ callers = [c \in Callers |-> IdleCaller]

\* what a caller of the KnowledgeBase leaves alone
kbFrame == <<runVarsAll, lockVars, metaVars, planVars, trackerVars, lastEvent,
             chanVars>>

\* kb.mutex.Lock() goes through when no goroutine holds the mutex in either
\* form, kb.mutex.RLock() when none holds it exclusively
CanLock(mutex) == mutex.writer = 0 /\ mutex.readers = {}
CanRLock(mutex) == mutex.writer = 0

\* the AddDocument calls begun so far
AddsBegun ==
    Len(history) + Cardinality({c \in Callers : callers[c].at \in {"locked", "stored"}})

\* AddDocument: kb.mutex.Lock()
AddLock(c, doc) ==
    /\ callers[c].at = "idle"
    /\ AddsBegun < MaxAdds
    /\ CanLock(kbMutex)
    /\ kbMutex' = [kbMutex EXCEPT !.writer = c]
    /\ callers' = [callers EXCEPT ![c] = [at |-> "locked", doc |-> doc]]
    /\ UNCHANGED <<kbFrame, documents, kbIndex, history, kbReturn>>

\* AddDocument: kb.documents[doc.ID] = doc
AddStore(c) ==
    /\ callers[c].at = "locked"
    /\ documents' = Put(documents, callers[c].doc.ID, callers[c].doc)
    /\ callers' = [callers EXCEPT ![c].at = "stored"]
    /\ UNCHANGED <<kbFrame, kbMutex, kbIndex, history, kbReturn>>

\* AddDocument: kb.index.Index(doc.ID, doc), the return and the deferred
\* kb.mutex.Unlock()
AddIndexAndUnlock(c) ==
    /\ callers[c].at = "stored"
    /\ \E err \in IndexResults :
        /\ kbIndex' = IF err = NoErr THEN kbIndex \cup {callers[c].doc.ID}
                                     ELSE kbIndex
        /\ history' = Append(history, [doc |-> callers[c].doc, err |-> err])
        /\ kbReturn' = [op |-> "AddDocument", err |-> err]
    /\ kbMutex' = [kbMutex EXCEPT !.writer = 0]
    /\ callers' = [callers EXCEPT ![c] = IdleCaller]
    /\ UNCHANGED <<kbFrame, documents>>

\* a reading method: kb.mutex.RLock()
ReadRLock(c, op) ==
    /\ callers[c].at = "idle"
    /\ CanRLock(kbMutex)
    /\ kbMutex' = [kbMutex EXCEPT !.readers = @ \cup {c}]
    /\ callers' = [callers EXCEPT ![c] = [at |-> "reading", op |-> op]]
    /\ UNCHANGED <<kbFrame, documents, kbIndex, history, kbReturn>>

\* GetStats: len(kb.documents) and the count of documents per SourceType
SourceTypeCounts(docs) ==
    [t \in {docs[id].SourceType : id \in DOMAIN docs} |->
        Cardinality({id \in DOMAIN docs : docs[id].SourceType = t})]

\* what a reading method reads of the map and the index: the methods that
\* search see hits of the index that are in the map, the others the map
Seen(op) ==
    IF op \in IndexReaders
    THEN SUBSET (kbIndex \cap DOMAIN documents)
    ELSE {DOMAIN documents}

\* a reading method reads, returns, and the deferred kb.mutex.RUnlock() runs
ReadAndRUnlock(c) ==
    /\ callers[c].at = "reading"
    /\ \E seen \in Seen(callers[c].op) :
        kbReturn' = [op |-> callers[c].op,
                     caller |-> c,
                     seen |-> seen,
                     unindexed |-> seen \ kbIndex,
                     total |-> Cardinality(DOMAIN documents),
                     counts |-> SourceTypeCounts(documents)]
    /\ kbMutex' = [kbMutex EXCEPT !.readers = @ \ {c}]
    /\ callers' = [callers EXCEPT ![c] = IdleCaller]
    /\ UNCHANGED <<kbFrame, documents, kbIndex, history>>

KBLockNext ==
    \/ \E c \in Callers, doc \in ResearchDocuments : AddLock(c, doc)
    \/ \E c \in Callers : AddStore(c)
    \/ \E c \in Callers : AddIndexAndUnlock(c)
    \/ \E c \in Callers, op \in IndexReaders \cup MapReaders : ReadRLock(c, op)
    \/ \E c \in Callers : ReadAndRUnlock(c)

SpecKBLock == KBLockStart /\ [][KBLockNext]_vars

RECURSIVE SumOf(_, _)
SumOf(f, S) ==
    IF S = {} THEN 0
    ELSE LET x == CHOOSE y \in S : TRUE IN f[x] + SumOf(f, S \ {x})

\* a mutation excludes every other mutation and every read
Exclusive ==
    \A c \in Callers :
        callers[c].at \in {"locked", "stored"} =>
            /\ kbMutex.writer = c
            /\ kbMutex.readers = {}
            /\ \A d \in Callers \ {c} : callers[d].at = "idle"

\* the total GetStats returned is the sum of its per-source-type counts
StatsAddUp ==
    kbReturn.op = "GetStats" =>
        kbReturn.total = SumOf(kbReturn.counts, DOMAIN kbReturn.counts)

\* C26: under any interleaving of concurrent calls a mutation excludes every
\* other mutation and every read; no read sees a document that is in the
\* map and not in the index; and the total GetStats returns is the sum of
\* its per-source-type counts.
C26_ReadsSeeWholeMutations ==
    /\ Exclusive
    /\ kbReturn.op \in IndexReaders \cup MapReaders => kbReturn.unindexed = {}
    /\ StatsAddUp


(***************************************************************************)
(* meta.Client.Search: one goroutine per engine sends its results on the  *)
(* unbuffered channel `results`; a collector goroutine ranges over the     *)
(* channel and appends the results with a new URL to mergedResults; the    *)
(* caller waits for the engines (wg.Wait) and returns mergedResults.  A    *)
(* result is named by its URL.                                             *)
(***************************************************************************)
URLs == {"u", "v"}
\* what engine.Search may return: an error, or a list of results
EngineResults == UNION {[1 .. n -> URLs] : n \in 0 .. MaxEngineResults}

\* Search has started the goroutines of the engines and of the collector
MetaInit ==
    /\ OrchIdle /\ PlanIdle /\ KBInit /\ TrackerIdle /\ ChanInit
    /\ LockIdle /\ KBLockIdle
    /\ \E n \in 1 .. MaxEngines :
        engines = [e \in 1 .. n |-> [at |-> "searching", found |-> <<>>, next |-> 1]]
    /\ collector = [at |-> "receiving"]
    /\ mergedResults = <<>>
    /\ resultSet = {}
    /\ aggregatedErr = {}
    /\ metaReturn = NoCall

\* what meta.Client.Search leaves alone
metaFrame == <<runVarsAll, lockVars, kbLockVars, planVars, kbVars, trackerVars,
               lastEvent, chanVars>>

\* engine.Search(ctx, search) returns; on an error the goroutine appends it
\* to aggregatedErr under errLock and ends (wg.Done)
EngineSearch(e) ==
    /\ engines[e].at = "searching"
    /\ \/ /\ aggregatedErr' = aggregatedErr \cup {e}
          /\ engines' = [engines EXCEPT ![e].at = "done"]
       \/ /\ \E found \in EngineResults :
                engines' = [engines EXCEPT
                              ![e] = [at |-> IF found = <<>> THEN "done"
                                                            ELSE "sending",
                                      found |-> found, next |-> 1]]
          /\ aggregatedErr' = aggregatedErr
    /\ UNCHANGED <<metaFrame, collector, mergedResults, resultSet, metaReturn>>

\* `results <- r` meets the collector's receive `for r := range results`:
\* the channel has no buffer, so the send goes through when the collector is
\* at its receive; after its last send the goroutine ends (wg.Done)
SendResult(e) ==
    /\ engines[e].at = "sending"
    /\ collector.at = "receiving"
    /\ collector' = [at |-> "merging", r |-> engines[e].found[engines[e].next]]
    /\ engines' = [engines EXCEPT
                      ![e].next = @ + 1,
                      ![e].at = IF engines[e].next = Len(engines[e].found)
                                THEN "done" ELSE "sending"]
    /\ UNCHANGED <<metaFrame, mergedResults, resultSet, aggregatedErr, metaReturn>>

\* the body of the collector's loop: a result whose URL was seen is skipped,
\* another is appended to mergedResults
Merge ==
    /\ collector.at = "merging"
    /\ IF collector.r \in resultSet
          THEN UNCHANGED <<mergedResults, resultSet>>
          ELSE /\ mergedResults' = Append(mergedResults, collector.r)
               /\ resultSet' = resultSet \cup {collector.r}
    /\ collector' = [at |-> "receiving"]
    /\ UNCHANGED <<metaFrame, engines, aggregatedErr, metaReturn>>

\* wg.Wait() returns when every engine goroutine has ended; Search returns
\* mergedResults as it is then, with aggregatedErr, and the deferred
\* close(results) runs
SearchReturns ==
    /\ metaReturn = NoCall
    /\ \A e \in DOMAIN engines : engines[e].at = "done"
    /\ metaReturn' = [op |-> "Search", results |-> mergedResults,
                      failed |-> aggregatedErr]
    /\ UNCHANGED <<metaFrame, engines, collector, mergedResults, resultSet,
                   aggregatedErr>>

\* the collector's range loop ends once the channel is closed
CollectorEnds ==
    /\ collector.at = "receiving"
    /\ metaReturn # NoCall
    /\ collector' = [at |-> "ended"]
    /\ UNCHANGED <<metaFrame, engines, mergedResults, resultSet, aggregatedErr,
                   metaReturn>>

MetaNext ==
    \/ \E e \in DOMAIN engines : EngineSearch(e)
    \/ \E e \in DOMAIN engines : SendResult(e)
    \/ Merge
    \/ SearchReturns
    \/ CollectorEnds

SpecMeta == MetaInit /\ [][MetaNext]_vars

\* the URLs of a list of results
URLsOf(results) == {results[k] : k \in DOMAIN results}

\* C28: when Search has returned, the collector is not in the middle of a
\* merge; every result of every engine that succeeded is in the returned
\* list, which has one entry per distinct URL; and mergedResults is still
\* the list that was returned.
C28_CollectorJoined ==
    metaReturn.op = "Search" =>
        /\ collector.at # "merging"
        /\ \A e \in DOMAIN engines :
            e \notin metaReturn.failed
                => URLsOf(engines[e].found) \subseteq URLsOf(metaReturn.results)
        /\ \A j, k \in DOMAIN metaReturn.results :
            j # k => metaReturn.results[j] # metaReturn.results[k]
        /\ mergedResults = metaReturn.results

====
